---- MODULE Spec2Model ----
(***************************************************************************)
(* A model of immutable-dll: the Node cell (data, prev, next) and the      *)
(* DLinkedList container (head_node, tail_node, length) with its mutating  *)
(* operations, as a heap of nodes addressed by identity.                   *)
(*                                                                         *)
(* A JavaScript TypeError raised in the middle of an operation leaves the  *)
(* assignments made before it in place; the caller may catch it and keep   *)
(* using the list, so such states are states of the program.               *)
(***************************************************************************)
EXTENDS Integers, Sequences, FiniteSets, TLC

\* ------------------------------------------------------------------ bounds
MaxLen == 3      \* nodes alive at once, and the cap on the length field
MaxVal == 2      \* scalar payloads are 1..MaxVal

\* ------------------------------------------------------------ value domain
NULL == 0
NodeIds == 1..MaxLen

\* A call that returns a new list builds it beside the receiver: the heap
\* then holds the nodes of both, at most MaxLen each, and one more.
HeapIds == 1..(2 * MaxLen + 1)

\* Identity of the JavaScript object behind a payload: NoRef for a scalar
\* (passed by value), a node's own number for the copy that node stores,
\* CallerRef for an object the caller holds, ReadRef for the copy a read
\* hands out, ResultRef for an object an iteratee makes and returns.
NoRef == NULL
CallerRef == 2 * MaxLen + 2
ReadRef == 2 * MaxLen + 3
ResultRef == 2 * MaxLen + 4

Scalar(k) == [kind |-> "scalar", val |-> k, ref |-> NoRef]
Plain(k, r) == [kind |-> "plain", val |-> k, ref |-> r]
Free == [kind |-> "free", val |-> NULL, ref |-> NoRef]

\* What a caller passes in: numbers, and a plain object {a: 1} it holds.
InputValues == {Scalar(k) : k \in 1..MaxVal} \cup {Plain(1, CallerRef)}
\* Predicates: v => v === k on numbers, v => v.a === 1 on plain objects.
Preds == {[kind |-> "scalar", val |-> k] : k \in 1..MaxVal} \cup {[kind |-> "plain", val |-> 1]}

VARIABLES head_node, tail_node, length, data, next, prev, last
\* One call of asyncMap or asyncMapRight in progress: where the async
\* function stands (pc), which method it is and the contents of the list
\* when it was called, in the order the method walks them (call), its array
\* of promises (results), the order in which pending ones were fulfilled
\* (settled), and what it returned.
VARIABLES pc, call, results, settled, returned
\* One call of asyncReduce or asyncReduceRight in progress: which method,
\* iteratee and initial accumulator, and the contents of the list when it
\* was called in the order the method walks them (reducing); where the
\* stepper stands (rpc), its node and the variable acc (rnode, racc); the
\* promises the iteratee calls made, in order (steps); what the call
\* returned (result).
VARIABLES reducing, rpc, rnode, racc, steps, result
listVars == <<head_node, tail_node, length, data, next, prev, last>>
asyncVars == <<pc, call, results, settled, returned>>
reduceVars == <<reducing, rpc, rnode, racc, steps, result>>
vars == <<head_node, tail_node, length, data, next, prev, last,
          pc, call, results, settled, returned,
          reducing, rpc, rnode, racc, steps, result>>

\* ------------------------------------------------------------------- Node
isPlainObject(obj) == obj.kind = "plain"
isArray(obj) == obj.kind = "array"
\* A structural copy: same shape and contents, a new object identity.
cloneDeep(obj, fresh) == [kind |-> obj.kind, val |-> obj.val, ref |-> fresh]
\* clonePlain as it would be if it handed the object on without copying it.
clonePlain_noCopy(obj, fresh) == obj
clonePlain(obj, fresh) ==
  IF isPlainObject(obj) \/ isArray(obj) THEN cloneDeep(obj, fresh) ELSE obj

\* The list object and its nodes' fields, as one record.
Cur == [head |-> head_node, tail |-> tail_node, length |-> length,
        data |-> data, next |-> next, prev |-> prev, threw |-> FALSE]

EmptyList == [head |-> NULL, tail |-> NULL, length |-> 0,
              data |-> [n \in NodeIds |-> Free],
              next |-> [n \in NodeIds |-> NULL],
              prev |-> [n \in NodeIds |-> NULL], threw |-> FALSE]

\* new Node(...) takes storage no live node occupies.
FreeNodes(L) == {n \in DOMAIN L.data : L.data[n] = Free}
FreshNode(L) == CHOOSE n \in FreeNodes(L) : \A m \in FreeNodes(L) : n <= m

\* constructor(data, prev, next)
NewNode(L, n, d, p, nx) ==
  [L EXCEPT !.data[n] = clonePlain(d, n), !.prev[n] = p, !.next[n] = nx]

\* getData as it would be with "return this.data".
getData_noCopy(L, n) == L.data[n]
getData(L, n) == clonePlain(L.data[n], ReadRef)
getNext(L, n) == L.next[n]
getPrev(L, n) == L.prev[n]
setNext(L, n, m) == [L EXCEPT !.next[n] = m]
setPrev(L, n, m) == [L EXCEPT !.prev[n] = m]

\* ------------------------------------------------------------ DLinkedList
prepend(L, d) ==
  IF L.head = NULL
  THEN LET n == FreshNode(L)
           L1 == NewNode(L, n, d, NULL, NULL)
       IN [L1 EXCEPT !.head = n, !.tail = n, !.length = L.length + 1]
  ELSE LET n == FreshNode(L)
           L1 == NewNode(L, n, d, NULL, L.head)
           L2 == setPrev(L1, L.head, n)
       IN [L2 EXCEPT !.head = n, !.length = L.length + 1]

\* append as it would be with line 187 (this.tail_node = n) left out.
append_keepsTail(L, d) ==
  IF L.head = NULL
  THEN LET n == FreshNode(L)
           L1 == NewNode(L, n, d, NULL, NULL)
       IN [L1 EXCEPT !.head = n, !.tail = n, !.length = L.length + 1]
  ELSE LET n == FreshNode(L)
           L1 == NewNode(L, n, d, L.tail, NULL)
           L2 == setNext(L1, L.tail, n)
       IN [L2 EXCEPT !.length = L.length + 1]

append(L, d) ==
  IF L.head = NULL
  THEN LET n == FreshNode(L)
           L1 == NewNode(L, n, d, NULL, NULL)
       IN [L1 EXCEPT !.head = n, !.tail = n, !.length = L.length + 1]
  ELSE LET n == FreshNode(L)
           L1 == NewNode(L, n, d, L.tail, NULL)
           L2 == setNext(L1, L.tail, n)
       IN [L2 EXCEPT !.tail = n, !.length = L.length + 1]

\* A TypeError or Error left the method: the assignments made so far stay.
Throw(L) == [L EXCEPT !.threw = TRUE]

\* predicate(data): v => v === k holds of the number k alone, v => v.a === k
\* of a plain object whose field is k.
Holds(p, v) == v.kind = p.kind /\ v.val = p.val

\* The loops walk until current === null; a chain of MaxLen nodes without a
\* cycle ends within MaxLen steps (Acyclic below says there is no cycle).
RECURSIVE findFrom(_, _, _, _)
findFrom(L, p, current, fuel) ==
  IF current = NULL \/ fuel = 0 THEN NULL
  ELSE IF Holds(p, getData(L, current)) THEN current
  ELSE findFrom(L, p, getNext(L, current), fuel - 1)
findNode(L, p) == findFrom(L, p, L.head, MaxLen)

find(L, p) ==
  LET node == findNode(L, p) IN IF node # NULL THEN getData(L, node) ELSE Free

\* head() and tail(): the payload through getData, or null (Free here).
head(L) == IF L.head # NULL THEN getData(L, L.head) ELSE Free
tail(L) == IF L.tail # NULL THEN getData(L, L.tail) ELSE Free

\* The caller's code writes a field of an object it holds (o.a = k): every
\* reference to the object of identity r sees the new contents.
mutate(L, r, k) ==
  [L EXCEPT !.data = [n \in DOMAIN L.data |->
                        IF r # NoRef /\ L.data[n].ref = r
                        THEN [L.data[n] EXCEPT !.val = k]
                        ELSE L.data[n]]]

RECURSIVE toArrayFrom(_, _, _)
toArrayFrom(L, current, fuel) ==
  IF current = NULL \/ fuel = 0 THEN <<>>
  ELSE <<getData(L, current)>> \o toArrayFrom(L, getNext(L, current), fuel - 1)
toArray(L) == toArrayFrom(L, L.head, MaxLen)

\* insertAfterNode as it would be if a missing node were taken for the tail.
insertAfterNode_nullAppends(L, node, d) ==
  IF node = NULL \/ getNext(L, node) = NULL
  THEN append(L, d)
  ELSE LET n == FreshNode(L)
           L1 == NewNode(L, n, d, node, getNext(L, node))
           L2 == setPrev(L1, getNext(L1, node), n)
           L3 == setNext(L2, node, n)
       IN [L3 EXCEPT !.length = L.length + 1]

insertAfterNode(L, node, d) ==
  IF node # NULL
  THEN IF getNext(L, node) = NULL
       THEN append(L, d)
       ELSE LET n == FreshNode(L)
                L1 == NewNode(L, n, d, node, getNext(L, node))
                L2 == setPrev(L1, getNext(L1, node), n)
                L3 == setNext(L2, node, n)
            IN [L3 EXCEPT !.length = L.length + 1]
  ELSE Throw(L)

insertAfter(L, p, d) ==
  LET node == findNode(L, p) IN
  IF node = NULL THEN Throw(L) ELSE insertAfterNode(L, node, d)

\* insertBeforeNode as it would be with line 273
\* (node.getPrev().setNext(n)) left out.
insertBeforeNode_noSetNext(L, node, d) ==
  IF node # NULL
  THEN IF getPrev(L, node) = NULL
       THEN prepend(L, d)
       ELSE LET n == FreshNode(L)
                L1 == NewNode(L, n, d, getPrev(L, node), node)
                L3 == setPrev(L1, node, n)
            IN [L3 EXCEPT !.length = L.length + 1]
  ELSE Throw(L)

insertBeforeNode(L, node, d) ==
  IF node # NULL
  THEN IF getPrev(L, node) = NULL
       THEN prepend(L, d)
       ELSE LET n == FreshNode(L)
                L1 == NewNode(L, n, d, getPrev(L, node), node)
                L2 == setNext(L1, getPrev(L1, node), n)
                L3 == setPrev(L2, node, n)
            IN [L3 EXCEPT !.length = L.length + 1]
  ELSE Throw(L)

insertBefore(L, p, d) ==
  LET node == findNode(L, p) IN
  IF node = NULL THEN Throw(L) ELSE insertBeforeNode(L, node, d)

removeHead(L) ==
  IF L.head # NULL
  THEN IF getNext(L, L.head) = NULL
       THEN [L EXCEPT !.head = NULL, !.tail = NULL, !.length = L.length - 1]
       ELSE LET L1 == [L EXCEPT !.head = getNext(L, L.head)]
                L2 == setPrev(L1, L1.head, NULL)
            IN [L2 EXCEPT !.length = L.length - 1]
  ELSE L

removeTail(L) ==
  IF L.tail # NULL
  THEN IF getPrev(L, L.tail) = NULL
       THEN [L EXCEPT !.head = NULL, !.tail = NULL, !.length = L.length - 1]
       ELSE LET L1 == [L EXCEPT !.tail = getPrev(L, L.tail)]
                L2 == setNext(L1, L1.tail, NULL)
            IN [L2 EXCEPT !.length = L.length - 1]
  ELSE L

\* removeNode as it would be if a missing node were taken for the head.
removeNode_nullRemovesHead(L, node) ==
  IF node = NULL \/ getPrev(L, node) = NULL
  THEN removeHead(L)
  ELSE LET L1 == setNext(L, getPrev(L, node), getNext(L, node))
       IN IF getNext(L1, node) = NULL
          THEN Throw(L1)
          ELSE LET L2 == setPrev(L1, getNext(L1, node), getPrev(L1, node))
               IN [L2 EXCEPT !.length = L.length - 1]

\* node.getNext().setPrev(...) on line 315 dereferences node.getNext(): when
\* it is null the call raises a TypeError after line 314 has run.
removeNode(L, node) ==
  IF node # NULL
  THEN IF getPrev(L, node) = NULL
       THEN removeHead(L)
       ELSE LET L1 == setNext(L, getPrev(L, node), getNext(L, node))
            IN IF getNext(L1, node) = NULL
               THEN Throw(L1)
               ELSE LET L2 == setPrev(L1, getNext(L1, node), getPrev(L1, node))
                    IN [L2 EXCEPT !.length = L.length - 1]
  ELSE L

remove(L, p) == removeNode(L, findNode(L, p))

clear(L) == [L EXCEPT !.head = NULL, !.tail = NULL, !.length = 0]

\* arr.forEach(value => this.append(value)): the elements in index order;
\* forEach reads arr and writes nothing to it.
RECURSIVE forEachAppend(_, _, _)
forEachAppend(L, arr, i) ==
  IF i > Len(arr) THEN [list |-> L, arr |-> arr]
  ELSE forEachAppend(append(L, arr[i]), arr, i + 1)
fromArray(L, arr) == forEachAppend(L, arr, 1)

\* The heap of L with the storage new nodes can take beside L's own.
Heap(L) ==
  [L EXCEPT !.data = [n \in HeapIds |-> IF n \in DOMAIN L.data THEN L.data[n] ELSE Free],
            !.next = [n \in HeapIds |-> IF n \in DOMAIN L.next THEN L.next[n] ELSE NULL],
            !.prev = [n \in HeapIds |-> IF n \in DOMAIN L.prev THEN L.prev[n] ELSE NULL]]
\* new DLinkedList(): a list object with its fields at their initial values,
\* in the heap H.
newList(H) == [H EXCEPT !.head = NULL, !.tail = NULL, !.length = 0]
\* The list object L (its three fields) with the nodes as they are in H.
OnHeap(L, H) == [H EXCEPT !.head = L.head, !.tail = L.tail, !.length = L.length]

\* static fromArray: new DLinkedList(), then the instance method.
fromArrayNew(H, arr) == fromArray(newList(H), arr)
fromArrayStatic(arr) == fromArrayNew(EmptyList, arr)

\* Iteratees a caller passes to map: none, v => v * 2 on numbers, and
\* v => ({a: v.a * 2}) on plain objects, which returns an object it makes.
Iteratees == {"omitted", "double"}
Apply(f, v) ==
  IF f = "ident" THEN v
  ELSE IF isPlainObject(v) THEN Plain(2 * v.val, ResultRef)
  ELSE Scalar(2 * v.val)

\* The loop of map and mapRight: results.push(mapFn(current.getData())),
\* then current = current.getNext() or current.getPrev().
RECURSIVE mapLoop(_, _, _, _, _)
mapLoop(L, mapFn, link, current, fuel) ==
  IF current = NULL \/ fuel = 0 THEN <<>>
  ELSE <<Apply(mapFn, getData(L, current))>>
         \o mapLoop(L, mapFn, link, link[current], fuel - 1)

\* map as it would be if it built the result on the receiver
\* (this.fromArray(results)).
map_onThis(L, iteratee) ==
  LET mapFn == IF iteratee # "omitted" THEN iteratee ELSE "ident"
      collected == mapLoop(L, mapFn, L.next, L.head, MaxLen)
      made == fromArray(L, collected).list
  IN [this |-> made, returned |-> made]

\* The receiver's fields are not assigned; the new list is returned.
map(L, iteratee) ==
  LET mapFn == IF iteratee # "omitted" THEN iteratee ELSE "ident"
      collected == mapLoop(L, mapFn, L.next, L.head, MaxLen)
      made == fromArrayNew(L, collected).list
  IN [this |-> OnHeap(L, made), returned |-> made]

mapRight(L, iteratee) ==
  LET mapFn == IF iteratee # "omitted" THEN iteratee ELSE "ident"
      collected == mapLoop(L, mapFn, L.prev, L.tail, MaxLen)
      made == fromArrayNew(L, collected).list
  IN [this |-> OnHeap(L, made), returned |-> made]

\* What the iteratee does when asyncMap calls it: returns a value, returns a
\* promise that is still pending, or throws.
IterateeOutcomes == {"value", "pending", "throws"}
\* Promise.resolve(iteratee(data)): the iteratee is v => v * 2 or an
\* asynchronous computation of it.
Promise(arg, state) == [arg |-> arg, value |-> Apply("double", arg), state |-> state]

\* The loop of asyncMap and asyncMapRight:
\* results.push(Promise.resolve(iteratee(current.getData()))), then
\* current = current.getNext() or current.getPrev(). An iteratee that throws
\* ends the loop and the async function fails.
RECURSIVE asyncMapLoop(_, _, _, _, _)
asyncMapLoop(L, link, current, outs, acc) ==
  IF current = NULL \/ Len(acc) >= MaxLen THEN [threw |-> FALSE, results |-> acc]
  ELSE IF outs[Len(acc) + 1] = "throws" THEN [threw |-> TRUE, results |-> acc]
  ELSE asyncMapLoop(L, link, link[current], outs,
         Append(acc, Promise(getData(L, current),
                             IF outs[Len(acc) + 1] = "value" THEN "fulfilled" ELSE "pending")))
asyncMap(L, outs) == asyncMapLoop(L, L.next, L.head, outs, <<>>)
asyncMapRight(L, outs) == asyncMapLoop(L, L.prev, L.tail, outs, <<>>)

\* Promise.all as it would be if it gathered the values as they arrive.
PromiseAll_asTheyArrive(rs, order) ==
  IF \E i \in DOMAIN rs : rs[i].state = "rejected"
  THEN [state |-> "rejected", value |-> <<>>]
  ELSE IF \A i \in DOMAIN rs : rs[i].state = "fulfilled"
  THEN [state |-> "fulfilled",
        value |-> LET early == SelectSeq([i \in DOMAIN rs |-> i],
                                         LAMBDA i : i \notin {order[j] : j \in DOMAIN order})
                  IN [j \in 1..Len(rs) |->
                        IF j <= Len(early) THEN rs[early[j]].value
                        ELSE rs[order[j - Len(early)]].value]]
  ELSE [state |-> "pending", value |-> <<>>]

\* Promise.all as it would be if it waited for every promise and took
\* whatever each settled with (Promise.allSettled).
PromiseAll_allSettled(rs, order) ==
  IF \A i \in DOMAIN rs : rs[i].state # "pending"
  THEN [state |-> "fulfilled", value |-> [i \in DOMAIN rs |-> rs[i].value]]
  ELSE [state |-> "pending", value |-> <<>>]

\* Promise.all(results): rejected as soon as one promise is rejected,
\* fulfilled with the values in index order once all are fulfilled.
PromiseAll(rs, order) ==
  IF \E i \in DOMAIN rs : rs[i].state = "rejected"
  THEN [state |-> "rejected", value |-> <<>>]
  ELSE IF \A i \in DOMAIN rs : rs[i].state = "fulfilled"
  THEN [state |-> "fulfilled", value |-> [i \in DOMAIN rs |-> rs[i].value]]
  ELSE [state |-> "pending", value |-> <<>>]

\* What a call has returned: no list, or the contents of the list it made.
NoList == [made |-> FALSE, values |-> <<>>]
\* The await and return as they would be if the list were walked again
\* after the await to build the result.
awaitAll_walksAgain(L, rs, order) ==
  LET unwrapped == PromiseAll(rs, order)
  IN IF unwrapped.state = "fulfilled"
     THEN [pc |-> "done",
           returned |-> [made |-> TRUE,
                         values |-> toArray(map(Heap(L), "double").returned)]]
     ELSE [pc |-> "failed", returned |-> NoList]

\* let unwrapped = await Promise.all(results);
\* return DLinkedList.fromArray(unwrapped)
awaitAll(L, rs, order) ==
  LET unwrapped == PromiseAll(rs, order)
  IN IF unwrapped.state = "fulfilled"
     THEN [pc |-> "done",
           returned |-> [made |-> TRUE,
                         values |-> toArray(fromArrayNew(Heap(L), unwrapped.value).list)]]
     ELSE [pc |-> "failed", returned |-> NoList]

\* Iteratees a caller passes to the reduce family: (v, acc) => acc + v and
\* (v, acc) => acc * 10 + v, which tells the order of the calls apart; a
\* plain object counts by its field.
ReduceIteratees == {"sum", "shift"}
Fold(f, v, a) == IF f = "sum" THEN a + v.val ELSE a * 10 + v.val
\* The accumulators a caller starts from.
Accumulators == 0..1

\* node.getNext() in asyncReduce, node.getPrev() in asyncReduceRight.
Step(L, dir, n) == IF dir = "next" THEN getNext(L, n) ELSE getPrev(L, n)

\* What a callback does with the value it is given besides computing its
\* result: nothing, or it writes to it (v.a = 0) when it is an object.
Callbacks == {"reads", "writes"}
callback(L, v, cb) == IF cb = "writes" THEN mutate(L, v.ref, 0) ELSE L
\* The value the callback was given, as the caller of the callback sees it
\* afterwards.
written(v, cb) == IF cb = "writes" /\ v.ref # NoRef THEN [v EXCEPT !.val = 0] ELSE v

\* The loop of each and eachRight: iteratee(current.getData()), then
\* current = current.getNext() or current.getPrev().
RECURSIVE eachLoop(_, _, _, _, _)
eachLoop(L, cb, dir, current, fuel) ==
  IF current = NULL \/ fuel = 0 THEN L
  ELSE LET L1 == callback(L, getData(L, current), cb)
       IN eachLoop(L1, cb, dir, Step(L1, dir, current), fuel - 1)

\* each and eachRight return this.
each(L, cb) ==
  LET L1 == eachLoop(L, cb, "next", L.head, MaxLen)
  IN [this |-> L1, returned |-> L1]
eachRight(L, cb) ==
  LET L1 == eachLoop(L, cb, "prev", L.tail, MaxLen)
  IN [this |-> L1, returned |-> L1]

\* The loop of reduce and reduceRight: acc = iteratee(data, acc), then
\* current = current.getNext() or current.getPrev(); calls lists the calls
\* of the iteratee, each with the value and the accumulator it was given.
RECURSIVE reduceLoop(_, _, _, _, _, _, _, _)
reduceLoop(L, f, cb, dir, current, a, calls, fuel) ==
  IF current = NULL \/ fuel = 0 THEN [this |-> L, value |-> a, calls |-> calls]
  ELSE LET d == getData(L, current)
           L1 == callback(L, d, cb)
       IN reduceLoop(L1, f, cb, dir, Step(L1, dir, current), Fold(f, d, a),
                     Append(calls, [arg |-> d, acc |-> a]), fuel - 1)

reduce(L, f, cb, accumulator) ==
  reduceLoop(L, f, cb, "next", L.head, accumulator, <<>>, MaxLen)
reduceRight(L, f, cb, accumulator) ==
  reduceLoop(L, f, cb, "prev", L.tail, accumulator, <<>>, MaxLen)

\* The loop of filter as it would be if it kept what the predicate rejects.
RECURSIVE filterLoop_keepsRejected(_, _, _, _, _, _)
filterLoop_keepsRejected(L, p, cb, current, kept, fuel) ==
  IF current = NULL \/ fuel = 0 THEN [this |-> L, results |-> kept]
  ELSE LET d == getData(L, current)
           L1 == callback(L, d, cb)
       IN filterLoop_keepsRejected(L1, p, cb, getNext(L1, current),
                     IF Holds(p, d) THEN kept ELSE Append(kept, written(d, cb)),
                     fuel - 1)

\* The loop of filter: if (predicate(data)) results.push(data), then
\* current = current.getNext(). What is pushed is the object the predicate
\* was given.
RECURSIVE filterLoop(_, _, _, _, _, _)
filterLoop(L, p, cb, current, kept, fuel) ==
  IF current = NULL \/ fuel = 0 THEN [this |-> L, results |-> kept]
  ELSE LET d == getData(L, current)
           L1 == callback(L, d, cb)
       IN filterLoop(L1, p, cb, getNext(L1, current),
                     IF Holds(p, d) THEN Append(kept, written(d, cb)) ELSE kept,
                     fuel - 1)

\* filter as it would be if it built the result on the receiver
\* (this.fromArray(results)).
filter_onThis(L, p, cb) ==
  LET walked == filterLoop(L, p, cb, L.head, <<>>, MaxLen)
      made == fromArray(walked.this, walked.results).list
  IN [this |-> made, returned |-> made]

\* return DLinkedList.fromArray(results): the receiver's fields are not
\* assigned; the new list is returned.
filter(L, p, cb) ==
  LET walked == filterLoop(L, p, cb, L.head, <<>>, MaxLen)
      made == fromArrayNew(walked.this, walked.results).list
  IN [this |-> OnHeap(walked.this, made), returned |-> made]

\* What asyncReduce has returned: nothing, or the accumulator.
NoResult == [returned |-> FALSE, value |-> 0]

\* stepper(node): if (node === null) return acc; otherwise the iteratee is
\* called with node.getData() and acc and the stepper waits for what it
\* returned. An iteratee that throws makes the stepper fail.
stepper(L, dir, n, a, ss, f, out) ==
  IF n = NULL
  THEN [pc |-> "done", node |-> n, acc |-> a, steps |-> ss,
        result |-> [returned |-> TRUE, value |-> a]]
  ELSE IF out = "throws"
  THEN [pc |-> "failed", node |-> n, acc |-> a, steps |-> ss, result |-> NoResult]
  ELSE [pc |-> "awaiting", node |-> n, acc |-> a,
        steps |-> Append(ss, [arg |-> getData(L, n), acc |-> a,
                              value |-> Fold(f, getData(L, n), a),
                              state |-> IF out = "value" THEN "fulfilled" ELSE "pending"]),
        result |-> NoResult]

\* The await as it would be if a rejected promise were taken for its value.
resumed_ignoresRejection(L, dir, n, a, ss, f, out) ==
  stepper(L, dir, Step(L, dir, n), ss[Len(ss)].value, ss, f, out)

\* The stepper after the await: a rejected promise makes it fail; otherwise
\* acc = the resolved value; return stepper(node.getNext()).
resumed(L, dir, n, a, ss, f, out) ==
  IF ss[Len(ss)].state = "rejected"
  THEN [pc |-> "failed", node |-> n, acc |-> a, steps |-> ss, result |-> NoResult]
  ELSE stepper(L, dir, Step(L, dir, n), ss[Len(ss)].value, ss, f, out)

\* The await as it would be if the stepper went on without waiting.
awaited_noAwait(s) == TRUE
\* await: the stepper goes on once the promise has settled.
awaited(s) == s.state # "pending"

\* Between calls the caller holds no node, and no method reads a node's
\* address: the nodes no reference reaches are reclaimed, and the ones still
\* reached from head_node or tail_node are numbered in the order a walk from
\* head_node, then tail_node, meets them (next before prev).
RECURSIVE Order(_, _, _)
Order(L, seq, i) ==
  IF i > Len(seq) THEN seq
  ELSE LET seen == {seq[j] : j \in DOMAIN seq}
           nx == L.next[seq[i]]
           pv == L.prev[seq[i]]
           s1 == IF nx # NULL /\ nx \notin seen THEN Append(seq, nx) ELSE seq
           s2 == IF pv # NULL /\ pv \notin seen /\ pv # nx THEN Append(s1, pv) ELSE s1
       IN Order(L, s2, i + 1)
Live(L) ==
  LET fromHead == Order(L, IF L.head = NULL THEN <<>> ELSE <<L.head>>, 1)
  IN IF L.tail = NULL \/ L.tail \in {fromHead[j] : j \in DOMAIN fromHead}
     THEN fromHead
     ELSE Order(L, Append(fromHead, L.tail), Len(fromHead) + 1)
Pos(seq, n) == IF n = NULL THEN NULL ELSE CHOOSE i \in DOMAIN seq : seq[i] = n
\* The copy a node made of its payload is renumbered with the node.
Renumber(d, i) == IF d.ref \in NodeIds THEN [d EXCEPT !.ref = i] ELSE d
Collect(L) ==
  LET live == Live(L) IN
  [L EXCEPT !.head = Pos(live, L.head),
            !.tail = Pos(live, L.tail),
            !.data = [i \in NodeIds |-> IF i <= Len(live) THEN Renumber(L.data[live[i]], i) ELSE Free],
            !.next = [i \in NodeIds |-> IF i <= Len(live) THEN Pos(live, L.next[live[i]]) ELSE NULL],
            !.prev = [i \in NodeIds |-> IF i <= Len(live) THEN Pos(live, L.prev[live[i]]) ELSE NULL]]

\* The last call: its name, whether it raised, the node it was given or found
\* (as numbered before the call), and for the static fromArray the array
\* passed and that array as the call left it.
Call(name, node) ==
  [op |-> name, threw |-> FALSE, node |-> node, arr |-> <<>>, arrAfter |-> <<>>]

\* The list after a call returned or raised, and what the call was.
Commit(R, called) ==
  \E G \in {Collect(R)} :
  /\ head_node' = G.head
  /\ tail_node' = G.tail
  /\ length' = G.length
  /\ data' = G.data
  /\ next' = G.next
  /\ prev' = G.prev
  /\ last' = [called EXCEPT !.threw = G.threw]
  /\ UNCHANGED <<asyncVars, reduceVars>>

Room(L, k) == L.length + k <= MaxLen /\ Cardinality(FreeNodes(L)) >= k

Init ==
  /\ head_node = NULL
  /\ tail_node = NULL
  /\ length = 0
  /\ data = [n \in NodeIds |-> Free]
  /\ next = [n \in NodeIds |-> NULL]
  /\ prev = [n \in NodeIds |-> NULL]
  /\ last = Call("new", NULL)
  /\ pc = "idle"
  /\ call = [op |-> "none", source |-> <<>>]
  /\ results = <<>>
  /\ settled = <<>>
  /\ returned = NoList
  /\ reducing = [op |-> "none", dir |-> "next", iteratee |-> "sum",
                 accumulator |-> 0, source |-> <<>>]
  /\ rpc = "idle"
  /\ rnode = NULL
  /\ racc = 0
  /\ steps = <<>>
  /\ result = NoResult

\* ---------------------------------------------------------------- actions
\* Each action is one call of a public method by the caller, who passes
\* values of InputValues, predicates of Preds, and for the node-relative
\* methods either null or a node obtained from this list.
DoPrepend ==
  \E d \in InputValues :
    /\ Room(Cur, 1)
    /\ Commit(prepend(Cur, d), Call("prepend", NULL))

DoAppend ==
  \E d \in InputValues :
    /\ Room(Cur, 1)
    /\ Commit(append(Cur, d), Call("append", NULL))

\* Nodes the caller can hold: those reached from head_node by next or from
\* tail_node by prev.
RECURSIVE walk(_, _, _, _)
walk(L, link, current, fuel) ==
  IF current = NULL \/ fuel = 0 THEN <<>>
  ELSE <<current>> \o walk(L, link, link[current], fuel - 1)
Forward(L) == walk(L, L.next, L.head, MaxLen)
Backward(L) == walk(L, L.prev, L.tail, MaxLen)
Range(s) == {s[i] : i \in DOMAIN s}
Linked(L) == Range(Forward(L)) \cup Range(Backward(L))

DoInsertAfter ==
  \E p \in Preds, d \in InputValues :
    /\ Room(Cur, 1)
    /\ Commit(insertAfter(Cur, p, d),
              Call("insertAfter", findNode(Cur, p)))

DoInsertBefore ==
  \E p \in Preds, d \in InputValues :
    /\ Room(Cur, 1)
    /\ Commit(insertBefore(Cur, p, d),
              Call("insertBefore", findNode(Cur, p)))

DoInsertAfterNode ==
  \E node \in Linked(Cur) \cup {NULL}, d \in InputValues :
    /\ Room(Cur, 1)
    /\ Commit(insertAfterNode(Cur, node, d),
              Call("insertAfterNode", node))

DoInsertBeforeNode ==
  \E node \in Linked(Cur) \cup {NULL}, d \in InputValues :
    /\ Room(Cur, 1)
    /\ Commit(insertBeforeNode(Cur, node, d),
              Call("insertBeforeNode", node))

DoRemove ==
  \E p \in Preds :
    Commit(remove(Cur, p), Call("remove", findNode(Cur, p)))

DoRemoveNode ==
  \E node \in Linked(Cur) \cup {NULL} :
    Commit(removeNode(Cur, node), Call("removeNode", node))

DoRemoveHead == Commit(removeHead(Cur), Call("removeHead", NULL))

DoRemoveTail == Commit(removeTail(Cur), Call("removeTail", NULL))

DoClear == Commit(clear(Cur), Call("clear", NULL))

\* made = dll.map(f), made = dll.mapRight(f): the list followed is dll.
DoMap ==
  \E f \in Iteratees :
    Commit(map(Heap(Cur), f).this, Call("map", NULL))

DoMapRight ==
  \E f \in Iteratees :
    Commit(mapRight(Heap(Cur), f).this, Call("mapRight", NULL))

\* dll.each(f), dll.eachRight(f), dll.reduce(f, init),
\* dll.reduceRight(f, init), made = dll.filter(p): the list followed is dll.
DoEach ==
  \E cb \in Callbacks :
    Commit(each(Cur, cb).this, Call("each", NULL))

DoEachRight ==
  \E cb \in Callbacks :
    Commit(eachRight(Cur, cb).this, Call("eachRight", NULL))

DoReduce ==
  \E f \in ReduceIteratees, cb \in Callbacks, a \in Accumulators :
    Commit(reduce(Cur, f, cb, a).this, Call("reduce", NULL))

DoReduceRight ==
  \E f \in ReduceIteratees, cb \in Callbacks, a \in Accumulators :
    Commit(reduceRight(Cur, f, cb, a).this, Call("reduceRight", NULL))

DoFilter ==
  \E p \in Preds, cb \in Callbacks :
    Commit(filter(Heap(Cur), p, cb).this, Call("filter", NULL))

ArraysOf(k) == [1..k -> InputValues]

\* dll = DLinkedList.fromArray(arr) makes a list of its own, whatever other
\* lists exist: the list followed here is that one from its creation on.
DoFromArrayStatic ==
  /\ last.op = "new"
  /\ \E k \in 0..MaxLen : \E arr \in ArraysOf(k) :
       LET r == fromArrayStatic(arr) IN
       Commit(r.list, [Call("fromArrayStatic", NULL) EXCEPT !.arr = arr, !.arrAfter = r.arr])

\* dll.fromArray(arr) on the list as it is.
DoFromArray ==
  \E k \in 0..MaxLen :
    /\ Room(Cur, k)
    /\ \E arr \in ArraysOf(k) :
         LET r == fromArray(Cur, arr) IN
         Commit(r.list, Call("fromArray", NULL))

Next ==
  \/ DoPrepend
  \/ DoAppend
  \/ DoInsertAfter
  \/ DoInsertBefore
  \/ DoInsertAfterNode
  \/ DoInsertBeforeNode
  \/ DoRemove
  \/ DoRemoveNode
  \/ DoRemoveHead
  \/ DoRemoveTail
  \/ DoClear
  \/ DoMap
  \/ DoMapRight
  \/ DoFromArrayStatic
  \/ DoFromArray

Spec == Init /\ [][Next]_vars

\* ------------------------------------------------- asyncMap, asyncMapRight
\* A call: the loop runs to its end without yielding, the function then
\* waits at "await Promise.all(results)" while the computations the iteratee
\* started complete in any order, and resumes when Promise.all settles.
Contents(L, nodes) == [i \in DOMAIN nodes |-> getData(L, nodes[i])]

DoAsyncMap ==
  /\ pc = "idle"
  /\ \E outs \in [1..Len(Forward(Cur)) -> IterateeOutcomes] :
       LET r == asyncMap(Cur, outs)
       IN /\ results' = r.results
          /\ pc' = IF r.threw THEN "failed" ELSE "awaiting"
  /\ call' = [op |-> "asyncMap", source |-> Contents(Cur, Forward(Cur))]
  /\ UNCHANGED <<settled, returned, listVars, reduceVars>>

DoAsyncMapRight ==
  /\ pc = "idle"
  /\ \E outs \in [1..Len(Backward(Cur)) -> IterateeOutcomes] :
       LET r == asyncMapRight(Cur, outs)
       IN /\ results' = r.results
          /\ pc' = IF r.threw THEN "failed" ELSE "awaiting"
  /\ call' = [op |-> "asyncMapRight", source |-> Contents(Cur, Backward(Cur))]
  /\ UNCHANGED <<settled, returned, listVars, reduceVars>>

\* A computation the iteratee started completes or fails, whether or not
\* anything still waits for it.
Settle ==
  \E i \in DOMAIN results, outcome \in {"fulfilled", "rejected"} :
    /\ results[i].state = "pending"
    /\ results' = [results EXCEPT ![i].state = outcome]
    /\ settled' = IF outcome = "fulfilled" THEN Append(settled, i) ELSE settled
    /\ UNCHANGED <<pc, call, returned, listVars, reduceVars>>

\* Promise.all has settled: the function resumes and returns or fails.
Resume ==
  /\ pc = "awaiting"
  /\ PromiseAll(results, settled).state # "pending"
  /\ pc' = awaitAll(Cur, results, settled).pc
  /\ returned' = awaitAll(Cur, results, settled).returned
  /\ UNCHANGED <<call, results, settled, listVars, reduceVars>>

\* The list is made, and may have had a removeNode, before the call.
AsyncNext ==
  \/ (pc = "idle" /\ DoFromArrayStatic)
  \/ (pc = "idle" /\ DoRemoveNode)
  \/ DoAsyncMap
  \/ DoAsyncMapRight
  \/ Settle
  \/ Resume

AsyncSpec == Init /\ [][AsyncNext]_vars

\* ------------------------- asyncMap with other code changing the list
\* While the async function waits, other code of the program runs and may
\* call the list's methods: here one such call, made while a computation
\* the iteratee started is pending and before any of them completes.
WhilePending ==
  /\ pc = "awaiting"
  /\ last.op = "fromArrayStatic"
  /\ settled = <<>>
  /\ \E i \in DOMAIN results : results[i].state = "pending"
  /\ \A i \in DOMAIN results : results[i].state # "rejected"

ConcurrentNext ==
  \/ (pc = "idle" /\ DoFromArrayStatic)
  \/ DoAsyncMap
  \/ DoAsyncMapRight
  \/ (WhilePending /\ DoAppend)
  \/ (WhilePending /\ DoPrepend)
  \/ (WhilePending /\ DoInsertAfter)
  \/ (WhilePending /\ DoInsertBefore)
  \/ (WhilePending /\ DoRemove)
  \/ (WhilePending /\ DoRemoveHead)
  \/ (WhilePending /\ DoRemoveTail)
  \/ (WhilePending /\ DoClear)
  \/ Settle
  \/ Resume

ConcurrentSpec == Init /\ [][ConcurrentNext]_vars

\* ------------------------------ each, eachRight, reduce, reduceRight, filter
\* The calls that walk the list and call back, on a list made by fromArray
\* that may have had removeNode calls.
ReadNext ==
  \/ DoFromArrayStatic
  \/ DoRemoveNode
  \/ DoEach
  \/ DoEachRight
  \/ DoReduce
  \/ DoReduceRight
  \/ DoFilter

ReadSpec == Init /\ [][ReadNext]_vars

\* ------------------------------------------- asyncReduce, asyncReduceRight
DoAsyncReduce ==
  /\ rpc = "idle"
  /\ \E f \in ReduceIteratees, a \in Accumulators, out \in IterateeOutcomes :
       LET r == stepper(Cur, "next", head_node, a, <<>>, f, out)
       IN /\ reducing' = [op |-> "asyncReduce", dir |-> "next", iteratee |-> f,
                          accumulator |-> a, source |-> Contents(Cur, Forward(Cur))]
          /\ rpc' = r.pc
          /\ rnode' = r.node
          /\ racc' = r.acc
          /\ steps' = r.steps
          /\ result' = r.result
  /\ UNCHANGED <<listVars, asyncVars>>

DoAsyncReduceRight ==
  /\ rpc = "idle"
  /\ \E f \in ReduceIteratees, a \in Accumulators, out \in IterateeOutcomes :
       LET r == stepper(Cur, "prev", tail_node, a, <<>>, f, out)
       IN /\ reducing' = [op |-> "asyncReduceRight", dir |-> "prev", iteratee |-> f,
                          accumulator |-> a, source |-> Contents(Cur, Backward(Cur))]
          /\ rpc' = r.pc
          /\ rnode' = r.node
          /\ racc' = r.acc
          /\ steps' = r.steps
          /\ result' = r.result
  /\ UNCHANGED <<listVars, asyncVars>>

\* The computation an iteratee call started completes or fails.
SettleStep ==
  \E i \in DOMAIN steps, outcome \in {"fulfilled", "rejected"} :
    /\ steps[i].state = "pending"
    /\ steps' = [steps EXCEPT ![i].state = outcome]
    /\ UNCHANGED <<reducing, rpc, rnode, racc, result, listVars, asyncVars>>

\* The stepper goes on after its await.
ResumeStep ==
  /\ rpc = "awaiting"
  /\ awaited(steps[Len(steps)])
  /\ \E out \in IterateeOutcomes :
       LET r == resumed(Cur, reducing.dir, rnode, racc, steps, reducing.iteratee, out)
       IN /\ rpc' = r.pc
          /\ rnode' = r.node
          /\ racc' = r.acc
          /\ steps' = r.steps
          /\ result' = r.result
  /\ UNCHANGED <<reducing, listVars, asyncVars>>

\* The list is made, and may have had a removeNode, before the call.
ReduceNext ==
  \/ (rpc = "idle" /\ DoFromArrayStatic)
  \/ (rpc = "idle" /\ DoRemoveNode)
  \/ DoAsyncReduce
  \/ DoAsyncReduceRight
  \/ SettleStep
  \/ ResumeStep

ReduceSpec == Init /\ [][ReduceNext]_vars

\* No walk of next from head_node or of prev from tail_node comes back to a
\* node it has visited, so the bounded loops above run the code's loops.
Acyclic ==
  /\ Len(Forward(Cur)) = Cardinality(Range(Forward(Cur)))
  /\ Len(Backward(Cur)) = Cardinality(Range(Backward(Cur)))
  /\ Len(Forward(Cur)) = MaxLen => next[Forward(Cur)[MaxLen]] = NULL
  /\ Len(Backward(Cur)) = MaxLen => prev[Backward(Cur)[MaxLen]] = NULL
\* ------------------------------------------------------------- properties
\* Sequence helpers for stating results.
DeleteAt(s, k) == [i \in 1..(Len(s) - 1) |-> IF i < k THEN s[i] ELSE s[i + 1]]
InsertAt(s, k, x) ==
  [i \in 1..(Len(s) + 1) |-> IF i < k THEN s[i] ELSE IF i = k THEN x ELSE s[i - 1]]
Index(s, x) == CHOOSE i \in DOMAIN s : s[i] = x
Last(s) == s[Len(s)]
\* Equality of payloads by value (kind and contents), whatever object holds them.
SameValue(a, b) == a.kind = b.kind /\ a.val = b.val
SameValues(s, t) == Len(s) = Len(t) /\ \A i \in DOMAIN s : SameValue(s[i], t[i])

\* C1: the length field equals the number of nodes met walking next from
\* head_node to null, and the number met walking prev from tail_node to null.
C1_LengthCountsNodes ==
  /\ length = Len(Forward(Cur))
  /\ length = Len(Backward(Cur))

\* C2: after every completed call, returned or raised, the chain is
\* consistently doubly linked: every linked node's next points back to it by
\* prev and its prev points to it by next, head_node has no prev, tail_node
\* has no next, and tail_node is the last node of the walk from head_node.
C2_DoublyLinked ==
  /\ \A n \in Linked(Cur) :
       /\ next[n] # NULL => prev[next[n]] = n
       /\ prev[n] # NULL => next[prev[n]] = n
  /\ head_node # NULL => prev[head_node] = NULL
  /\ tail_node # NULL => next[tail_node] = NULL
  /\ IF head_node = NULL THEN tail_node = NULL
     ELSE tail_node = Last(Forward(Cur))

\* C3: length is 0 exactly when head_node is null, head_node is null exactly
\* when tail_node is null, and length is never negative.
C3_EmptyIffNoHead ==
  /\ length = 0 <=> head_node = NULL
  /\ head_node = NULL <=> tail_node = NULL
  /\ length >= 0

\* The list R is the list L with the node at position k taken out, every
\* other node where it was, and length one less.
RemovesPosition(L, R, k) ==
  /\ ~R.threw
  /\ toArray(R) = DeleteAt(toArray(L), k)
  /\ R.length = L.length - 1
  /\ Forward(R) = DeleteAt(Forward(L), k)
  /\ R.head = (IF Len(Forward(R)) = 0 THEN NULL ELSE Forward(R)[1])
  /\ R.tail = (IF Len(Forward(R)) = 0 THEN NULL ELSE Last(Forward(R)))

\* C4: for every node linked in the list, at the head, inside or at the tail,
\* removeNode(node) raises nothing and leaves the former contents with that
\* node's position deleted, length one less, and head_node and tail_node
\* moved when the node was the head or the tail.
C4_RemoveNodeAnywhere ==
  \A node \in Linked(Cur) :
    node \in Range(Forward(Cur)) /\
    RemovesPosition(Cur, removeNode(Cur, node), Index(Forward(Cur), node))

\* C5: when some element satisfies the predicate, remove(predicate) deletes
\* exactly the first satisfying element from head to tail, wherever it sits,
\* keeps every other element in order, and length decreases by 1.
C5_RemoveFirstMatch ==
  \A p \in Preds :
    findNode(Cur, p) # NULL =>
      RemovesPosition(Cur, remove(Cur, p), Index(Forward(Cur), findNode(Cur, p)))
\* Whether an element of the list satisfies the predicate, and where the
\* first such element sits, read off the contents from head to tail.
Matches(L, p) == LET arr == toArray(L) IN \E i \in DOMAIN arr : Holds(p, arr[i])
FirstMatch(L, p) ==
  LET arr == toArray(L) IN
  CHOOSE i \in DOMAIN arr :
    /\ Holds(p, arr[i])
    /\ \A j \in 1..(i - 1) : ~Holds(p, arr[j])

\* C6: remove(predicate) when no element satisfies the predicate (the empty
\* list included) and removeNode(null) raise nothing and leave head_node,
\* tail_node, length and every node's links as they were.
C6_RemoveNothingIsNoOp ==
  /\ \A p \in Preds : ~Matches(Cur, p) => remove(Cur, p) = Cur
  /\ removeNode(Cur, NULL) = Cur
C6_Witness ==
  /\ last.op = "remove"
  /\ last.node = NULL
  /\ ~last.threw
  /\ length = MaxLen
  /\ Len(Forward(Cur)) = MaxLen

\* C7: insertAfter and insertBefore with a predicate no element satisfies,
\* and insertAfterNode and insertBeforeNode with a null node, end in an error
\* and leave head_node, tail_node, length, every link and every node as they
\* were: no node is created.
C7_FailedInsertChangesNothing ==
  \A d \in InputValues :
    /\ insertAfterNode(Cur, NULL, d) = Throw(Cur)
    /\ insertBeforeNode(Cur, NULL, d) = Throw(Cur)
    /\ \A p \in Preds :
         ~Matches(Cur, p) =>
           /\ insertAfter(Cur, p, d) = Throw(Cur)
           /\ insertBefore(Cur, p, d) = Throw(Cur)
C7_Witness ==
  /\ last.op \in {"insertAfter", "insertBefore"}
  /\ last.threw
  /\ last.node = NULL
  /\ length = 2
  /\ Len(Forward(Cur)) = 2

\* The list R is the list L with one new node holding a copy of x put at
\* position k, every other node where it was, and length one more.
InsertsAt(L, R, k, x) ==
  /\ ~R.threw
  /\ SameValues(toArray(R), InsertAt(toArray(L), k, x))
  /\ Forward(R) = InsertAt(Forward(L), k, FreshNode(L))
  /\ R.length = L.length + 1

\* C8: when some element satisfies the predicate, insertAfter(predicate, x)
\* puts x right after the first satisfying element, keeps all other elements
\* in order, adds 1 to length, and makes the new node the tail when that
\* element was the tail.
C8_InsertAfterFirstMatch ==
  \A p \in Preds, x \in InputValues :
    (Room(Cur, 1) /\ Matches(Cur, p)) =>
      LET R == insertAfter(Cur, p, x)
          k == FirstMatch(Cur, p)
      IN /\ InsertsAt(Cur, R, k + 1, x)
         /\ Forward(Cur)[k] = tail_node => R.tail = FreshNode(Cur)

\* C9: when some element satisfies the predicate, insertBefore(predicate, x)
\* puts x right before the first satisfying element, keeps all other
\* elements in order, adds 1 to length, and makes the new node the head when
\* that element was the head.
C9_InsertBeforeFirstMatch ==
  \A p \in Preds, x \in InputValues :
    (Room(Cur, 1) /\ Matches(Cur, p)) =>
      LET R == insertBefore(Cur, p, x)
          k == FirstMatch(Cur, p)
      IN /\ InsertsAt(Cur, R, k, x)
         /\ Forward(Cur)[k] = head_node => R.head = FreshNode(Cur)

C9_Witness ==
  /\ last.op = "insertBefore"
  /\ ~last.threw
  /\ last.node = 2
  /\ length = MaxLen
  /\ Len(Forward(Cur)) = MaxLen
  /\ Len(Backward(Cur)) = MaxLen

\* C10: toArray of the list DLinkedList.fromArray(S) made equals S element
\* by element in the same order, and the call leaves the array S as it was.
C10_FromArrayRoundTrip ==
  last.op = "fromArrayStatic" =>
    /\ SameValues(toArray(Cur), last.arr)
    /\ last.arrAfter = last.arr
C10_Witness ==
  /\ last.op = "fromArrayStatic"
  /\ Len(last.arr) = MaxLen
  /\ last.arr[1] = Plain(1, CallerRef)
  /\ last.arr[2] = Scalar(1)
  /\ last.arr[MaxLen] = Scalar(MaxVal)

\* C11: for the static form and for the instance form on a receiving list in
\* any state, the list fromArray(S) results in has length equal to the length
\* of S, and is empty when S is empty.
C11_FromArrayLength ==
  \A k \in 0..MaxLen : \A arr \in ArraysOf(k) :
    /\ fromArrayStatic(arr).list.length = Len(arr)
    /\ Len(toArray(fromArrayStatic(arr).list)) = Len(arr)
    /\ Room(Cur, k) =>
         LET R == fromArray(Cur, arr).list
         IN /\ R.length = Len(arr)
            /\ Len(arr) = 0 => (R.head = NULL /\ R.tail = NULL /\ toArray(R) = <<>>)

\* C12: for every list with contents A and every value x, append(x) yields
\* the contents A followed by x and length |A| + 1 with the new node as tail;
\* on an empty list the new node is both head and tail.
C12_AppendAtTail ==
  \A x \in InputValues :
    Room(Cur, 1) =>
      LET R == append(Cur, x)
          A == toArray(Cur)
      IN /\ SameValues(toArray(R), Append(A, x))
         /\ R.length = Len(A) + 1
         /\ R.tail = FreshNode(Cur)
         /\ Len(A) = 0 => R.head = FreshNode(Cur)

\* C13: for every list with contents A and every value x, prepend(x) yields
\* the contents x followed by A and length |A| + 1, the new node is the head
\* and the old head's prev points to it; on an empty list the new node is
\* both head and tail.
C13_PrependAtHead ==
  \A x \in InputValues :
    Room(Cur, 1) =>
      LET R == prepend(Cur, x)
          A == toArray(Cur)
      IN /\ SameValues(toArray(R), <<x>> \o A)
         /\ R.length = Len(A) + 1
         /\ R.head = FreshNode(Cur)
         /\ head_node # NULL => R.prev[head_node] = FreshNode(Cur)
         /\ Len(A) = 0 => R.tail = FreshNode(Cur)

\* C14: removeHead and removeTail on an empty list change nothing and length
\* stays 0; on a list of one element they leave head_node = tail_node = null
\* and length 0; on a longer list removeHead drops exactly the first element
\* and removeTail exactly the last, the promoted neighbour's back-link
\* becomes null, and length decreases by 1.
C14_RemoveEnds ==
  LET A == toArray(Cur)
      H == removeHead(Cur)
      T == removeTail(Cur)
  IN /\ Len(A) = 0 => (H = Cur /\ T = Cur /\ H.length = 0 /\ T.length = 0)
     /\ Len(A) = 1 =>
          /\ H.head = NULL /\ H.tail = NULL /\ H.length = 0
          /\ T.head = NULL /\ T.tail = NULL /\ T.length = 0
     /\ Len(A) > 1 =>
          /\ toArray(H) = Tail(A)
          /\ H.prev[H.head] = NULL
          /\ H.length = length - 1
          /\ toArray(T) = SubSeq(A, 1, Len(A) - 1)
          /\ T.next[T.tail] = NULL
          /\ T.length = length - 1

\* The payload objects the nodes of L hold, by identity.
Stored(L) == {L.data[n].ref : n \in Linked(L)} \ {NoRef}
\* What the accessors of L return, taken together.
Reads(L) == <<head(L), tail(L), toArray(L)>>

\* C15: a composite value v put in by append, prepend, insertAfter,
\* insertBefore or fromArray is stored as a copy, never as the caller's object
\* v, so whatever the caller writes to v afterwards, head(), tail() and
\* toArray() return what they returned before.
C15_CloneOnWrite ==
  /\ \A n \in NodeIds : data[n].ref # CallerRef
  /\ \A x \in {v \in InputValues : isPlainObject(v) \/ isArray(v)} :
       Room(Cur, 1) =>
         \A R \in {append(Cur, x), prepend(Cur, x), fromArray(Cur, <<x>>).list}
               \cup {insertAfter(Cur, p, x) : p \in {q \in Preds : Matches(Cur, q)}}
               \cup {insertBefore(Cur, p, x) : p \in {q \in Preds : Matches(Cur, q)}} :
           /\ R.data[FreshNode(Cur)].kind = x.kind
           /\ R.data[FreshNode(Cur)].ref # x.ref
           /\ x.ref \notin Stored(R)
           /\ \A k \in 0..MaxVal : Reads(mutate(R, x.ref, k)) = Reads(R)
C15_Witness ==
  /\ last.op = "insertBefore"
  /\ ~last.threw
  /\ length = MaxLen
  /\ \A n \in Linked(Cur) : isPlainObject(data[n])

\* C16: what head(), tail(), find(), toArray() and Node.getData() hand out,
\* and what map and mapRight pass to the iteratee (the omitted iteratee
\* returns what it is passed), for a composite payload is a copy, not the object the node stores, so after
\* the caller writes to the object it was handed, head(), tail(), find() and
\* toArray() return what they returned before.
C16_CloneOnRead ==
  LET handed == {head(Cur), tail(Cur)}
                  \cup Range(toArray(Cur))
                  \cup {find(Cur, p) : p \in Preds}
                  \cup {getData(Cur, n) : n \in Linked(Cur)}
                  \cup Range(mapLoop(Cur, "ident", next, head_node, MaxLen))
                  \cup Range(mapLoop(Cur, "ident", prev, tail_node, MaxLen))
  IN \A v \in handed :
       /\ v.ref \notin Stored(Cur)
       /\ \A n \in Linked(Cur) :
            (isPlainObject(data[n]) \/ isArray(data[n])) => getData(Cur, n).ref # data[n].ref
       /\ \A k \in 0..MaxVal :
            LET M == mutate(Cur, v.ref, k)
            IN /\ Reads(M) = Reads(Cur)
               /\ \A p \in Preds : find(M, p) = find(Cur, p)
C16_Witness ==
  /\ last.op = "append"
  /\ length = MaxLen
  /\ isPlainObject(data[head_node])
  /\ isPlainObject(data[tail_node])
  /\ head_node # tail_node

\* The values an iteratee turns the contents into, and a sequence reversed.
Mapped(arr, mapFn) == [i \in DOMAIN arr |-> Apply(mapFn, arr[i])]
Reverse(arr) == [i \in 1..Len(arr) |-> arr[Len(arr) + 1 - i]]
\* The list object A has the fields of the list B, and every node of B is in
\* A as it is in B.
SameList(A, B) ==
  /\ A.head = B.head /\ A.tail = B.tail /\ A.length = B.length
  /\ \A n \in DOMAIN B.data \ FreeNodes(B) :
       A.data[n] = B.data[n] /\ A.next[n] = B.next[n] /\ A.prev[n] = B.prev[n]
\* The list L after one more mutating call.
Mutations(L) ==
  {clear(L), removeHead(L), removeTail(L)}
    \cup {append(L, x) : x \in InputValues} \cup {prepend(L, x) : x \in InputValues}

\* C17: map(f) returns a new list whose contents are f applied to each
\* element of the receiver from head to tail (the receiver's contents when f
\* is omitted); the receiver's head_node, tail_node, length and links are
\* unchanged; the two lists share no node, so a later mutation of either
\* leaves the contents of the other as they were.
C17_MapMakesNewList ==
  \A f \in Iteratees :
    LET m == map(Heap(Cur), f)
        made == m.returned
        mapFn == IF f = "omitted" THEN "ident" ELSE f
    IN /\ ~made.threw
       /\ SameValues(toArray(made), Mapped(toArray(Cur), mapFn))
       /\ f = "omitted" => SameValues(toArray(made), toArray(Cur))
       /\ made.length = Len(toArray(Cur))
       /\ SameList(m.this, Cur)
       /\ Linked(made) \cap Linked(m.this) = {}
       /\ \A X \in Mutations(m.this) : toArray(OnHeap(made, X)) = toArray(made)
       /\ \A X \in Mutations(made) : toArray(OnHeap(m.this, X)) = toArray(Cur)
C17_Witness ==
  /\ last.op = "map"
  /\ length = MaxLen
  /\ toArray(Cur) = <<Scalar(1), Plain(1, ReadRef), Scalar(MaxVal)>> \o [i \in 1..(MaxLen - 3) |-> Scalar(1)]

\* C18: mapRight(f) returns a new list whose contents are f applied to the
\* receiver's elements from tail to head, the reverse of the contents of
\* map(f); with the iteratee omitted, mapRight of the mapRight gives the
\* receiver's contents back.
C18_MapRightReverses ==
  \A f \in Iteratees :
    LET made == mapRight(Heap(Cur), f).returned
        mapFn == IF f = "omitted" THEN "ident" ELSE f
    IN /\ SameValues(toArray(made), Reverse(Mapped(toArray(Cur), mapFn)))
       /\ toArray(made) = Reverse(toArray(map(Heap(Cur), f).returned))
       /\ f = "omitted" =>
            SameValues(toArray(mapRight(Heap(Collect(made)), f).returned), toArray(Cur))

Rejected == \E i \in DOMAIN results : results[i].state = "rejected"

C20_AsyncMapFailsAsAWhole ==
  /\ Rejected => (pc # "done" /\ returned = NoList)
  /\ pc = "failed" => returned = NoList
  /\ (Rejected /\ pc = "awaiting") =>
       /\ PromiseAll(results, settled).state = "rejected"
       /\ awaitAll(Cur, results, settled) = [pc |-> "failed", returned |-> NoList]
C20_Witness ==
  /\ pc = "failed"
  /\ call.op = "asyncMapRight"
  /\ Len(results) = MaxLen
  /\ results[1].state = "fulfilled"
  /\ settled = <<1>>
  /\ results[2].state = "rejected"
  /\ results[MaxLen].state = "pending"

\* The accumulator after folding the values of arr, in order, from a.
RECURSIVE FoldAll(_, _, _)
FoldAll(f, arr, a) ==
  IF arr = <<>> THEN a ELSE FoldAll(f, Tail(arr), Fold(f, Head(arr), a))
Pending(ss) == {i \in DOMAIN ss : ss[i].state = "pending"}

\* C21: asyncReduce and asyncReduceRight are sequential: at most one
\* iteratee computation is outstanding; the iteratee is called for a node
\* only after the computation for the node before has resolved, with the
\* accumulator it resolved to (the initial one for the first node), on the
\* nodes in traversal order; and the call returns the accumulator resolved
\* for the last node, the initial accumulator for an empty list.
C21_AsyncReduceIsSequential ==
  /\ Cardinality(Pending(steps)) <= 1
  /\ Len(steps) <= Len(reducing.source)
  /\ \A i \in DOMAIN steps :
       /\ steps[i].arg = reducing.source[i]
       /\ steps[i].acc = (IF i = 1 THEN reducing.accumulator ELSE steps[i - 1].value)
       /\ i > 1 => steps[i - 1].state = "fulfilled"
  /\ rpc = "done" =>
       /\ Len(steps) = Len(reducing.source)
       /\ result.returned
       /\ result.value = (IF steps = <<>> THEN reducing.accumulator
                          ELSE steps[Len(steps)].value)
       /\ result.value = FoldAll(reducing.iteratee, reducing.source, reducing.accumulator)
C21_Witness ==
  /\ rpc = "done"
  /\ reducing.op = "asyncReduceRight"
  /\ reducing.iteratee = "shift"
  /\ reducing.accumulator = 1
  /\ Len(steps) = MaxLen
  /\ steps[1].arg.val # steps[MaxLen].arg.val

\* C22: when the iteratee call for a node fails, the call ends failed, the
\* iteratee is called for no later node, and no accumulator is returned.
C22_AsyncReduceStopsAtFailure ==
  /\ \A i \in DOMAIN steps :
       steps[i].state = "rejected" =>
         /\ i = Len(steps)
         /\ rpc \in {"awaiting", "failed"}
         /\ result = NoResult
         /\ rpc = "awaiting" =>
              \A out \in IterateeOutcomes :
                LET r == resumed(Cur, reducing.dir, rnode, racc, steps, reducing.iteratee, out)
                IN r.pc = "failed" /\ r.steps = steps /\ r.result = NoResult
  /\ rpc = "failed" =>
       /\ result = NoResult
       /\ steps # <<>> => steps[Len(steps)].state # "pending"
C22_Witness ==
  /\ rpc = "failed"
  /\ reducing.op = "asyncReduce"
  /\ Len(reducing.source) = MaxLen
  /\ Len(steps) = 2
  /\ steps[2].state = "rejected"

\* C23: reduce(f, init) folds the elements from head to tail and
\* reduceRight(f, init) from tail to head: f is called once for each element
\* with the accumulator the call before returned (init for the first) and
\* the accumulator of the last call is returned, init on an empty list.
C23_ReduceFolds ==
  \A f \in ReduceIteratees, cb \in Callbacks, a \in Accumulators :
    LET r == reduce(Cur, f, cb, a)
        rr == reduceRight(Cur, f, cb, a)
        A == toArray(Cur)
    IN /\ [i \in DOMAIN r.calls |-> r.calls[i].arg] = A
       /\ \A i \in DOMAIN r.calls :
            r.calls[i].acc = FoldAll(f, SubSeq(A, 1, i - 1), a)
       /\ r.value = FoldAll(f, A, a)
       /\ [i \in DOMAIN rr.calls |-> rr.calls[i].arg] = Reverse(A)
       /\ \A i \in DOMAIN rr.calls :
            rr.calls[i].acc = FoldAll(f, SubSeq(Reverse(A), 1, i - 1), a)
       /\ rr.value = FoldAll(f, Reverse(A), a)

\* The receiver after each of the calls that only read it, for every
\* callback and argument.
AfterReading(L) ==
  {each(L, cb).this : cb \in Callbacks}
    \cup {eachRight(L, cb).this : cb \in Callbacks}
    \cup {reduce(L, f, cb, a).this :
            f \in ReduceIteratees, cb \in Callbacks, a \in Accumulators}
    \cup {reduceRight(L, f, cb, a).this :
            f \in ReduceIteratees, cb \in Callbacks, a \in Accumulators}
    \cup {filter(Heap(L), p, cb).this : p \in Preds, cb \in Callbacks}
    \cup {map(Heap(L), f).this : f \in Iteratees}
    \cup {mapRight(Heap(L), f).this : f \in Iteratees}
\* The values the reading calls return or pass to their callback.
HandedOut(L) ==
  {head(L), tail(L)} \cup Range(toArray(L))
    \cup {find(L, p) : p \in Preds}
    \cup {getData(L, n) : n \in Linked(L)}

\* C24: toArray, head, tail, headNode, tailNode, find, findNode, each,
\* eachRight, reduce, reduceRight, map, mapRight and filter leave the
\* receiver's head_node, tail_node and length and every node's prev and next
\* as they were, also when the callback writes to the value it is given; so
\* a toArray() after any of them returns what a toArray() before it returned.
C24_ReadsLeaveListUnchanged ==
  /\ \A R \in AfterReading(Cur) :
       /\ ~R.threw
       /\ SameList(R, Cur)
       /\ toArray(R) = toArray(Cur)
       /\ head(R) = head(Cur) /\ tail(R) = tail(Cur)
       /\ \A p \in Preds : findNode(R, p) = findNode(Cur, p)
  /\ \A v \in HandedOut(Cur) :
       /\ v.ref \notin Stored(Cur)
       /\ SameList(callback(Cur, v, "writes"), Cur)
C24_Witness ==
  /\ last.op = "filter"
  /\ length = MaxLen
  /\ \E n \in Linked(Cur) : isPlainObject(data[n])
  /\ \E n \in Linked(Cur) : ~isPlainObject(data[n])

ChangedSinceCall == pc # "idle" /\ last.op \notin {"new", "fromArrayStatic"}

\* C26: what asyncMap and asyncMapRight return depends only on the contents
\* of the list when they were called: an append, prepend, insert, remove or
\* clear on the list while computations are pending changes neither the
\* elements mapped nor the order or length of the list returned.
C26_AsyncMapIgnoresLaterChanges ==
  ChangedSinceCall =>
    /\ Len(results) = Len(call.source)
    /\ \A i \in DOMAIN results : results[i].arg = call.source[i]
    /\ pc = "awaiting" =>
         LET r == awaitAll(Cur, results, settled)
         IN r.pc = "done" =>
              SameValues(r.returned.values, Mapped(call.source, "double"))
    /\ pc = "done" =>
         /\ returned.made
         /\ Len(returned.values) = Len(call.source)
         /\ SameValues(returned.values, Mapped(call.source, "double"))
C26_Witness ==
  /\ pc = "done"
  /\ call.op = "asyncMapRight"
  /\ last.op = "clear"
  /\ length = 0
  /\ Len(call.source) = MaxLen
  /\ Len(returned.values) = MaxLen
  /\ ~SameValue(call.source[1], call.source[MaxLen])
====
